---- MODULE Spec2Model ----
(***************************************************************************)
(* Model of the chat stream bridge of src/app/api/chat/route.ts: the       *)
(* start() callback of the ReadableStream that forwards the assistant's    *)
(* chunks as SSE frames, its event transformer and its error unwrapper.    *)
(*                                                                         *)
(* JavaScript runs start() on one thread: the consumer can cancel the      *)
(* stream only while start() is suspended at an await (the chatStream call *)
(* and each step of the for-await loop), so one action is the code between *)
(* two awaits.                                                             *)
(*                                                                         *)
(* And of the message block of src/unnamed/part_000: the citation index,   *)
(* the marker inserter and the marker resolver of ChatMessageBlock, which  *)
(* renders the message again whenever its content or citations grow.       *)
(***************************************************************************)
EXTENDS Integers, Sequences, FiniteSets, TLC

VARIABLES
  upstream,      \* what the SDK's iterator will yield, in order
  pos,           \* how many of its items the for-await loop has taken
  pc,            \* where start() is: "chatStream", "forAwait" or "done"
  streamEnded,   \* the flag of line 39
  sink,          \* the controller: "OPEN" or "CLOSED"
  frames,        \* the frames enqueued so far, in order
  transitions,   \* how many times the sink went from OPEN to CLOSED
  disconnected,  \* the consumer has cancelled the stream
  escaped,       \* an exception left start()
  error,         \* the error the outer catch caught, NoError before
  errorMessage,  \* the errorMessage of the outer catch
  last,          \* what the latest step did
  content,       \* the content of the message shown, a sequence of characters
  citations,     \* its citations, in the order they arrived
  chunks,        \* the lengths of the content chunks it was built from
  validCitations,      \* validCitations of insertCitationMarkers
  citationMap,         \* the citationMap of the latest render
  contentWithMarkers,  \* the text handed to the formatter
  tree,          \* the node tree the formatter made of it
  resolved,      \* the tree as the outermost handlers resolved it
  rendered,      \* the tree as rendered by the components
  parsed         \* the variable parsed of the unwrap loop, line 142

\* The state of the bridge and the state of the message block.
bridge == <<upstream, pos, pc, streamEnded, sink, frames, transitions,
            disconnected, escaped, error, errorMessage, last>>
message == <<content, citations, chunks, validCitations, citationMap,
             contentWithMarkers, tree, resolved, rendered>>
vars == <<bridge, message, parsed>>

\* ------------------------------------------------------------------ bounds
\* Longest upstream sequence of the bridge specification.
MaxLen == 3
\* Deepest nesting of error envelopes in a raised error.
MaxDepth == 3
\* Most content chunks and most citations of the message shown.
MaxPieces == 2
MaxCites == 2
\* Greatest position a citation carries.
MaxPosition == 3

\* ------------------------------------------------------- JavaScript values
\* A value is a record tagged with its kind k.  A string is either plain text
\* that is not valid JSON (field text) or the JSON text of a value (field
\* json), so that JSON.parse succeeds exactly on the latter.
Undefined == [k |-> "undefined"]
Null == [k |-> "null"]
Number5 == [k |-> "number"]
TextV(t) == [k |-> "string", text |-> t]
EncV(v) == [k |-> "string", json |-> v]
ObjV(e, m) == [k |-> "object", error |-> e, message |-> m]

IsString(v) == v.k = "string"
TypeofObject(v) == v.k \in {"object", "null"}
Truthy(v) ==
  CASE v.k \in {"undefined", "null"} -> FALSE
    [] v.k = "string" -> v # TextV("")
    [] OTHER -> TRUE

\* JSON.parse: the value a JSON text encodes, a SyntaxError on any other text.
JSONParse(s) ==
  IF "json" \in DOMAIN s THEN [ok |-> TRUE, value |-> s.json]
  ELSE [ok |-> FALSE, value |-> Undefined]

\* v.f for f in {error, message}: a field of an object, undefined on a
\* string or a number.
Get(v, f) == IF v.k = "object" THEN v[f] ELSE Undefined
\* v?.f
OptGet(v, f) == IF v.k \in {"undefined", "null"} THEN Undefined ELSE Get(v, f)

\* ---------------------------------------------------------- upstream events
\* An event object has the fields below; U marks a field that is missing.
\* delta_content is the path delta.content, in an event and in a frame.
U == "undefined"
EventFields == {"type", "id", "model", "role", "delta_content", "content",
                "citation", "finish_reason", "usage", "extra"}
Blank == [f \in EventFields |-> U]

MessageStart == [Blank EXCEPT !.type = "message_start", !.id = "id1",
                   !.model = "gpt-4.1", !.role = "assistant", !.extra = "x"]
Chunk(d, c) == [Blank EXCEPT !.type = "content_chunk", !.delta_content = d,
                   !.content = c, !.extra = "x"]
CitationEv == [Blank EXCEPT !.type = "citation", !.citation = "cit1",
                   !.extra = "x"]
MessageEnd == [Blank EXCEPT !.type = "message_end", !.finish_reason = "stop",
                   !.usage = "u1", !.extra = "x"]
\* An event of a kind the bridge does not know.
Ping == [Blank EXCEPT !.type = "ping", !.content = "top", !.extra = "x"]

\* What the SDK's iterator yields: an event object, a string (with or
\* without the "data: " label) or a falsy value.
ObjItem(e) == [k |-> "object", ev |-> e]
StrItem(e) == [k |-> "string", prefix |-> TRUE, json |-> ObjItem(e)]
NullStr == [k |-> "string", prefix |-> TRUE, json |-> Null]
Garbage == [k |-> "string", prefix |-> FALSE, text |-> "{oops"]
EmptyStr == [k |-> "string", prefix |-> FALSE, text |-> ""]

ItemTruthy(r) ==
  CASE r.k \in {"undefined", "null"} -> FALSE
    [] r.k = "string" -> r # EmptyStr
    [] OTHER -> TRUE

\* responseValue.replace(/^data:\s*/, '').trim(): the text without its label.
StripLabel(r) ==
  IF "json" \in DOMAIN r THEN [k |-> "string", json |-> r.json]
  ELSE [k |-> "string", text |-> r.text]

\* Lines 45-51: the data of a response.
ParseResponse(r) ==
  IF r.k = "string" THEN JSONParse(StripLabel(r))
  ELSE [ok |-> TRUE, value |-> r]

\* JSON.stringify of an object: missing fields are not written.
Stringify(rec) == [f \in {g \in DOMAIN rec : rec[g] # U} |-> rec[f]]

\* Line 69: a || b on strings.
Or(a, b) == IF a \notin {U, ""} THEN a ELSE b

\* Faulty variant: the switch is missing and every event passes through.
Transform_Verbatim(d) == d

\* Lines 57-89: the switch on data.type.
Transform(d) ==
  CASE d.type = "message_start" ->
         [type |-> "message_start", id |-> d.id, model |-> d.model,
          role |-> d.role]
    [] d.type = "content_chunk" ->
         [type |-> "content_chunk",
          delta_content |-> Or(Or(d.delta_content, d.content), "")]
    [] d.type = "citation" ->
         [type |-> "citation", citation |-> d.citation]
    [] d.type = "message_end" ->
         [type |-> "message_end", finish_reason |-> d.finish_reason,
          usage |-> d.usage]
    [] OTHER -> d

\* Faulty variant: streamEnded is never set.
MarksEnd_Never(d) == FALSE

\* Line 84: message_end marks the stream as ended.
MarksEnd(d) == d.type = "message_end"

\* The frame `data: ${JSON.stringify(transformedData)}\n\n`.
Frame(t) == Stringify(t)

\* ------------------------------------------------------------ error unwrapper
\* Line 138: the message when nothing better is found.
DefaultMessage == TextV("An error occurred")

\* Faulty variant: the loop gives up after one descent and takes whatever the
\* second level holds.
UnwrapLoop_TwoLevels(p, raw) ==
  IF ~(Truthy(p) /\ TypeofObject(p)) THEN DefaultMessage
  ELSE LET em == OptGet(Get(p, "error"), "message") IN
       IF Truthy(em)
       THEN LET inner == IF IsString(em) THEN JSONParse(em)
                         ELSE [ok |-> TRUE, value |-> em]
                em2 == OptGet(OptGet(inner.value, "error"), "message")
            IN IF inner.ok /\ Truthy(em2) THEN em2 ELSE em
       ELSE IF Truthy(Get(p, "message")) THEN Get(p, "message")
       ELSE IF IsString(Get(p, "error")) THEN Get(p, "error")
       ELSE raw

\* Faulty variant: the assignment parsed = innerParsed of line 153 is missing.
LoopBody_Stuck(p, raw) ==
  IF ~(Truthy(p) /\ TypeofObject(p)) THEN [next |-> "exit"]
  ELSE LET em == OptGet(Get(p, "error"), "message") IN
       IF Truthy(em)
       THEN LET inner == IF IsString(em) THEN JSONParse(em)
                         ELSE [ok |-> TRUE, value |-> em]
            IN IF inner.ok
                  /\ Truthy(OptGet(OptGet(inner.value, "error"), "message"))
               THEN [next |-> "continue", parsed |-> p]
               ELSE [next |-> "break", message |-> em]
       ELSE IF Truthy(Get(p, "message"))
            THEN [next |-> "break", message |-> Get(p, "message")]
       ELSE IF IsString(Get(p, "error"))
            THEN [next |-> "break", message |-> Get(p, "error")]
       ELSE [next |-> "break", message |-> raw]

\* Lines 145-171: the test of the while loop and one pass through its body,
\* with parsed = p: the loop is left (exit), left with a message (break), or
\* entered again with the envelope that error.message holds (continue).
LoopBody(p, raw) ==
  IF ~(Truthy(p) /\ TypeofObject(p)) THEN [next |-> "exit"]
  ELSE LET em == OptGet(Get(p, "error"), "message") IN
       IF Truthy(em)
       THEN LET inner == IF IsString(em) THEN JSONParse(em)
                         ELSE [ok |-> TRUE, value |-> em]
            IN IF inner.ok
                  /\ Truthy(OptGet(OptGet(inner.value, "error"), "message"))
               THEN [next |-> "continue", parsed |-> inner.value]
               ELSE [next |-> "break", message |-> em]
       ELSE IF Truthy(Get(p, "message"))
            THEN [next |-> "break", message |-> Get(p, "message")]
       ELSE IF IsString(Get(p, "error"))
            THEN [next |-> "break", message |-> Get(p, "error")]
       ELSE [next |-> "break", message |-> raw]

\* Line 173: the default message means that nothing was found.
AfterLoop(m, raw) == IF m = DefaultMessage /\ Truthy(raw) THEN raw ELSE m

\* Lines 145-171: the while loop over parsed; its value is errorMessage after
\* the loop (DefaultMessage when the loop body never ran).
RECURSIVE UnwrapLoop(_, _)
UnwrapLoop(p, raw) ==
  IF ~(Truthy(p) /\ TypeofObject(p)) THEN DefaultMessage
  ELSE LET em == OptGet(Get(p, "error"), "message") IN
       IF Truthy(em)
       THEN LET inner == IF IsString(em) THEN JSONParse(em)
                         ELSE [ok |-> TRUE, value |-> em]
            IN IF inner.ok
                  /\ Truthy(OptGet(OptGet(inner.value, "error"), "message"))
               THEN UnwrapLoop(inner.value, raw)
               ELSE em
       ELSE IF Truthy(Get(p, "message")) THEN Get(p, "message")
       ELSE IF IsString(Get(p, "error")) THEN Get(p, "error")
       ELSE raw

\* Lines 138-179: errorMessage for a caught error.
ExtractMessage(e) ==
  LET raw == OptGet(e, "message") IN
  IF ~Truthy(raw) THEN DefaultMessage
  ELSE LET p == IF IsString(raw) THEN JSONParse(raw)
                ELSE [ok |-> TRUE, value |-> raw]
       IN IF ~p.ok THEN raw
          ELSE LET m == UnwrapLoop(p.value, raw)
               IN IF m = DefaultMessage THEN raw ELSE m

\* The frame of the error event, line 184.
ErrorFrame(m) == [type |-> "error", message |-> m]

\* Error values: envelopes nested at most d deep.
InnerTexts == {Undefined, TextV(""), TextV("inner"), DefaultMessage}
TopTexts == {Undefined, TextV(""), TextV("top")}
ErrorFields == {Undefined, TextV("errstr")}
\* error.message values that are objects, not strings.
RawInner ==
  {ObjV(ObjV(Undefined, TextV("inner")), Undefined),
   ObjV(Undefined, TextV("top"))}
Envelopes[d \in 0..MaxDepth] ==
  IF d = 0 THEN {}
  ELSE LET below == Envelopes[d - 1]
           ems == InnerTexts \cup {EncV(o) : o \in below}
                    \cup (IF d > 1 THEN RawInner ELSE {})
       IN {ObjV(e, m) : e \in ErrorFields \cup {ObjV(Undefined, x) : x \in ems},
                        m \in TopTexts}
RawMessages ==
  {Undefined, TextV(""), TextV("oops"), EncV(Null), EncV(Number5)}
    \cup {EncV(o) : o \in Envelopes[MaxDepth]} \cup Envelopes[MaxDepth]
\* What the upstream iterator can throw in the leaf specification.
ErrorValues == {Null} \cup {ObjV(Undefined, r) : r \in RawMessages}
\* What it throws in the bridge specification.
SampleErrors ==
  {ObjV(Undefined, TextV("oops")),
   ObjV(Undefined, EncV(ObjV(ObjV(Undefined, TextV("inner")), Undefined)))}
NoError == [k |-> "none"]

\* ------------------------------------------------------------------ the sink
InvalidState == "ERR_INVALID_STATE"

\* controller.enqueue: appends to an open stream, throws on a closed one.
Enqueue(s, fs, f) ==
  IF s = "OPEN" THEN [code |-> "ok", frames |-> Append(fs, f)]
  ELSE [code |-> InvalidState, frames |-> fs]

\* controller.close: closes an open stream, throws on a closed one.
Close(s) ==
  IF s = "OPEN" THEN [code |-> "ok", sink |-> "CLOSED"]
  ELSE [code |-> InvalidState, sink |-> s]

\* The errors the bridge's own statements throw.
InvalidStateError == ObjV(Undefined, TextV("Invalid state"))
SyntaxError == ObjV(Undefined, TextV("Unexpected token"))

\* ------------------------------------------------------- the catch clauses
\* Faulty variant: the catch rethrows even after message_end.
EnqueueCatch_Always(code, ended) == "throw"

\* Lines 96-103: what the catch around enqueue does with the error.
EnqueueCatch(code, ended) ==
  IF code # InvalidState \/ ~ended THEN "throw" ELSE "break"

\* Lines 109-114: the catch around close after message_end.
CloseCatch(code) == IF code # InvalidState THEN "throw" ELSE "absorb"

\* Faulty variant: the catch rethrows.
ChunkCatch_Rethrow(thrown) == "throw"

\* Lines 117-119: the catch around the processing of one chunk logs the
\* error; the loop goes on.
ChunkCatch(thrown) == "log"

\* Faulty variant: the test of streamEnded is inverted.
PostLoopCloses_Inverted(ended) == ended

\* Line 124: the close after the loop runs unless message_end was seen.
PostLoopCloses(ended) == ~ended

\* Lines 127-132: the catch around the close after the loop.
ExhaustCloseCatch(code) == IF code # InvalidState THEN "throw" ELSE "absorb"

\* Faulty variant: the catch rethrows.
ErrorEnqueueCatch_Rethrow(code) == "throw"

\* Lines 186-191: the catch around the enqueue of the error event.
ErrorEnqueueCatch(code) == "absorb"

\* Faulty variant: the catch rethrows.
ErrorCloseCatch_Rethrow(code) == "throw"

\* Lines 196-201: the catch around the close of the error path.
ErrorCloseCatch(code) == "absorb"

\* ------------------------------------------------------------ one loop body
NoData == Blank
Step(op, data, out, write, close, flow) ==
  [op |-> op, data |-> data, out |-> out, write |-> write, close |-> close,
   flow |-> flow]
Outcome(flow, ended, s, fs, data, out, write, close, thrown) ==
  [flow |-> flow, ended |-> ended, sink |-> s, frames |-> fs, data |-> data,
   out |-> out, write |-> write, close |-> close, thrown |-> thrown]

\* An error thrown inside the try of line 42 reaches the catch of line 117.
Thrown(e, ended, s, fs, data, out, write, close) ==
  Outcome(IF ChunkCatch(e) = "log" THEN "logged" ELSE "throw",
          ended, s, fs, data, out, write, close, e)

\* Lines 41-120: the body of the for-await loop for one response.
ChunkBody(response, ended, s, fs) ==
  IF ~ItemTruthy(response)
  THEN Outcome("skip", ended, s, fs, NoData, NoData, "none", "none", NoError)
  ELSE
  LET p == ParseResponse(response) IN
  IF ~p.ok
  THEN Thrown(SyntaxError, ended, s, fs, NoData, NoData, "none", "none")
  ELSE IF ~ItemTruthy(p.value)
  THEN Outcome("skip", ended, s, fs, NoData, NoData, "none", "none", NoError)
  ELSE
  LET d == p.value.ev
      t == Transform(d)
      e2 == ended \/ MarksEnd(d)
      w == Enqueue(s, fs, Frame(t))
  IN
  IF w.code # "ok"
  THEN IF EnqueueCatch(w.code, e2) = "throw"
       THEN Thrown(InvalidStateError, e2, s, fs, d, t, w.code, "none")
       ELSE Outcome("break", e2, s, fs, d, t, w.code, "none", NoError)
  ELSE IF e2
  THEN LET c == Close(s) IN
       IF c.code # "ok" /\ CloseCatch(c.code) = "throw"
       THEN Thrown(InvalidStateError, e2, s, w.frames, d, t, "ok", c.code)
       ELSE Outcome("return", e2, c.sink, w.frames, d, t, "ok", c.code, NoError)
  ELSE Outcome("continue", e2, s, w.frames, d, t, "ok", "none", NoError)

\* Lines 123-133: after the loop.
PostLoop(ended, s) ==
  IF ~PostLoopCloses(ended) THEN [flow |-> "done", sink |-> s, close |-> "none"]
  ELSE LET c == Close(s) IN
       IF c.code # "ok" /\ ExhaustCloseCatch(c.code) = "throw"
       THEN [flow |-> "throw", sink |-> c.sink, close |-> c.code]
       ELSE [flow |-> "done", sink |-> c.sink, close |-> c.code]

\* Lines 181-201: the error frame with message m is written and the sink
\* closed.
ErrorTail(m, s, fs) ==
  LET w == Enqueue(s, fs, ErrorFrame(m))
  IN
  IF w.code # "ok" /\ ErrorEnqueueCatch(w.code) = "throw"
  THEN [message |-> m, sink |-> s, frames |-> w.frames, write |-> w.code,
        close |-> "none", escaped |-> TRUE]
  ELSE LET c == Close(s) IN
       [message |-> m, sink |-> c.sink, frames |-> w.frames, write |-> w.code,
        close |-> c.code,
        escaped |-> c.code # "ok" /\ ErrorCloseCatch(c.code) = "throw"]

\* Lines 134-202: the outer catch.
ErrorPath(e, s, fs) == ErrorTail(ExtractMessage(e), s, fs)

\* ------------------------------------------------- the message and its index
\* src/unnamed/part_000: ChatMessageBlock renders one assistant message.  A
\* string is a sequence of characters, a position an offset into it (0 is
\* before the first character).
DigitChars == <<"0", "1", "2", "3", "4", "5", "6", "7", "8", "9">>
\* `${i}`: the decimal digits of i.
RECURSIVE Digits(_)
Digits(n) ==
  IF n < 10 THEN <<DigitChars[n + 1]>>
  ELSE Digits(n \div 10) \o <<DigitChars[(n % 10) + 1]>>
MarkerPrefix == <<"[", "C", "I", "T", "A", "T", "I", "O", "N", "_">>
\* Line 255: `[CITATION_${i}]`.
Marker(i) == MarkerPrefix \o Digits(i) \o <<"]">>
\* s.slice(a, b)
Slice(s, a, b) == SubSeq(s, a + 1, b)

\* The backtick character, which a string of this notation cannot hold.
Tick == "BACKTICK"

\* A citation: its position and the references it points at.
Citation(p, r) == [position |-> p, ref |-> r]

\* Faulty variant: the comparator is (a, b) => b.position - a.position.
RECURSIVE SortByPosition_Descending(_)
SortByPosition_Descending(s) ==
  IF s = <<>> THEN <<>>
  ELSE LET x == s[Len(s)]
           front == SortByPosition_Descending(SubSeq(s, 1, Len(s) - 1))
           n == Cardinality({i \in 1..Len(front) :
                               front[i].position >= x.position})
       IN SubSeq(front, 1, n) \o <<x>> \o SubSeq(front, n + 1, Len(front))

\* Lines 242 and 279: .sort((a, b) => a.position - b.position), a stable
\* sort: an element goes behind every earlier one that is not greater.
RECURSIVE SortByPosition(_)
SortByPosition(s) ==
  IF s = <<>> THEN <<>>
  ELSE LET x == s[Len(s)]
           front == SortByPosition(SubSeq(s, 1, Len(s) - 1))
           n == Cardinality({i \in 1..Len(front) :
                               front[i].position <= x.position})
       IN SubSeq(front, 1, n) \o <<x>> \o SubSeq(front, n + 1, Len(front))

\* Faulty variant: the filter rejects a position at the very end.
InsertValidCitations_Strict(c, cs) ==
  LET Valid(x) == x.position >= 0 /\ x.position < Len(c)
  IN SortByPosition(SelectSeq(cs, Valid))

\* Lines 240-242: validCitations of insertCitationMarkers.
InsertValidCitations(c, cs) ==
  LET Valid(x) == x.position >= 0 /\ x.position <= Len(c)
  IN SortByPosition(SelectSeq(cs, Valid))

\* Faulty variant: the loop runs from the first citation to the last.
RECURSIVE InsertFrom_Ascending(_, _, _)
InsertFrom_Ascending(result, valid, i) ==
  IF i = 0 THEN result
  ELSE LET k == Len(valid) - i + 1
           p == valid[k].position
       IN InsertFrom_Ascending(
            Slice(result, 0, p) \o Marker(k - 1) \o Slice(result, p, Len(result)),
            valid, i - 1)

\* Lines 252-257: the loop, about to insert the marker of valid[i].
RECURSIVE InsertFrom(_, _, _)
InsertFrom(result, valid, i) ==
  IF i = 0 THEN result
  ELSE LET p == valid[i].position
       IN InsertFrom(
            Slice(result, 0, p) \o Marker(i - 1) \o Slice(result, p, Len(result)),
            valid, i - 1)

\* Lines 231-260.
insertCitationMarkers(c, cs) ==
  IF cs = <<>> THEN c
  ELSE LET valid == InsertValidCitations(c, cs)
       IN IF valid = <<>> THEN c ELSE InsertFrom(c, valid, Len(valid))

\* Faulty variant: the map numbers the citations from the last to the first.
MapValidCitations_Descending(c, cs) ==
  LET Valid(x) == x.position >= 0 /\ x.position <= Len(c)
  IN SortByPosition_Descending(SelectSeq(cs, Valid))

\* Lines 277-279: validCitations of the citationMap.
MapValidCitations(c, cs) ==
  LET Valid(x) == x.position >= 0 /\ x.position <= Len(c)
  IN SortByPosition(SelectSeq(cs, Valid))

\* Lines 273-284: the map from the digits of idx (the key `CITATION_${idx}`)
\* to {number: idx + 1, citation}.
CitationMap(c, cs) ==
  LET valid == IF cs = <<>> THEN <<>> ELSE MapValidCitations(c, cs)
      Idx(key) == CHOOSE i \in 1..Len(valid) : Digits(i - 1) = key
  IN [key \in {Digits(i - 1) : i \in 1..Len(valid)} |->
        [number |-> Idx(key), citation |-> valid[Idx(key)]]]

\* Lines 286-288, for a message of role assistant.
ContentWithMarkers(c, cs) ==
  IF cs # <<>> THEN insertCitationMarkers(c, cs) ELSE c

\* --------------------------------------------------------------- node trees
Text(s) == [type |-> "text", value |-> s]
Element(tag, kids) == [type |-> "element", tag |-> tag, children |-> kids]
Fragment(kids) == [type |-> "fragment", children |-> kids]
\* Lines 309-313: <InlineCitation citationNumber citation />.
InlineCitation(d) ==
  [type |-> "InlineCitation", citationNumber |-> d.number,
   citation |-> d.citation]

\* The formatter (react-markdown, lines 471-477) on a single line of text in
\* which the only markup is the backtick and the > that opens the line: a
\* run of n backticks opens a code span that the next run of exactly n
\* backticks closes, and is literal text when there is none; a > at the
\* start of the line puts the rest of it into a blockquote.
RECURSIVE RunLength(_, _)
RunLength(s, i) ==
  IF i <= Len(s) /\ s[i] = Tick THEN 1 + RunLength(s, i + 1) ELSE 0
RECURSIVE ClosingRun(_, _, _)
ClosingRun(s, j, n) ==
  IF j > Len(s) THEN 0
  ELSE IF s[j] = Tick
       THEN LET r == RunLength(s, j)
            IN IF r = n THEN j ELSE ClosingRun(s, j + r, n)
       ELSE ClosingRun(s, j + 1, n)
Flush(nodes, pending) ==
  IF pending = <<>> THEN nodes ELSE Append(nodes, Text(pending))
RECURSIVE Inline(_, _, _, _)
Inline(s, i, pending, nodes) ==
  IF i > Len(s) THEN Flush(nodes, pending)
  ELSE IF s[i] = Tick
       THEN LET n == RunLength(s, i)
                j == ClosingRun(s, i + n, n)
            IN IF j > 0
               THEN Inline(s, j + n, <<>>,
                           Append(Flush(nodes, pending),
                                  Element("code",
                                          <<Text(SubSeq(s, i + n, j - 1))>>)))
               ELSE Inline(s, i + n, pending \o SubSeq(s, i, i + n - 1), nodes)
       ELSE Inline(s, i + 1, Append(pending, s[i]), nodes)
\* The line break, and the children of a blockquote: the formatter puts a
\* line break before, between and after its blocks.
Newline == "\n"
Wrap(kids) ==
  <<Text(<<Newline>>)>>
    \o (IF kids = <<>> THEN <<>> ELSE kids \o <<Text(<<Newline>>)>>)
\* The blocks of a line: none for the empty text, a blockquote around the
\* blocks of the rest when it opens with >, else one paragraph.
RECURSIVE Blocks(_)
Blocks(text) ==
  IF text = <<>> THEN <<>>
  ELSE IF text[1] = ">"
       THEN <<Element("blockquote", Wrap(Blocks(Tail(text))))>>
       ELSE <<Element("p", Inline(text, 1, <<>>, <<>>))>>
Parse(text) == Element("root", Blocks(text))

\* ------------------------------------------------------- the marker resolver
IsDigit(ch) == \E d \in 1..Len(DigitChars) : DigitChars[d] = ch
RECURSIVE DigitRun(_, _)
DigitRun(s, j) ==
  IF j <= Len(s) /\ IsDigit(s[j]) THEN 1 + DigitRun(s, j + 1) ELSE 0
\* Line 294: /\[CITATION_(\d+)\]/ at index i: the length of the match, 0
\* when there is none.
MatchAt(s, i) ==
  LET n == Len(MarkerPrefix)
      d == DigitRun(s, i + n)
  IN IF /\ i + n - 1 <= Len(s)
        /\ SubSeq(s, i, i + n - 1) = MarkerPrefix
        /\ d >= 1
        /\ i + n + d <= Len(s)
        /\ s[i + n + d] = "]"
     THEN n + d + 1 ELSE 0

\* Faulty variant: a marker that the map does not know is dropped.
RECURSIVE Scan_Drops(_, _, _, _, _)
Scan_Drops(s, i, lastIndex, parts, map) ==
  IF i > Len(s)
  THEN IF lastIndex < Len(s)
       THEN Append(parts, Text(Slice(s, lastIndex, Len(s)))) ELSE parts
  ELSE LET m == MatchAt(s, i) IN
       IF m = 0 THEN Scan_Drops(s, i + 1, lastIndex, parts, map)
       ELSE LET index == i - 1
                before == IF index > lastIndex
                          THEN Append(parts, Text(Slice(s, lastIndex, index)))
                          ELSE parts
                marker == Slice(s, index + Len(MarkerPrefix), index + m - 1)
            IN Scan_Drops(s, i + m, index + m,
                          IF marker \in DOMAIN map
                          THEN Append(before, InlineCitation(map[marker]))
                          ELSE before,
                          map)

\* Faulty variant: the else of line 315 is missing, and the text of the
\* marker follows every reference.
RECURSIVE Scan_KeepsMarker(_, _, _, _, _)
Scan_KeepsMarker(s, i, lastIndex, parts, map) ==
  IF i > Len(s)
  THEN IF lastIndex < Len(s)
       THEN Append(parts, Text(Slice(s, lastIndex, Len(s)))) ELSE parts
  ELSE LET m == MatchAt(s, i) IN
       IF m = 0 THEN Scan_KeepsMarker(s, i + 1, lastIndex, parts, map)
       ELSE LET index == i - 1
                before == IF index > lastIndex
                          THEN Append(parts, Text(Slice(s, lastIndex, index)))
                          ELSE parts
                marker == Slice(s, index + Len(MarkerPrefix), index + m - 1)
            IN Scan_KeepsMarker(s, i + m, index + m,
                 Append(IF marker \in DOMAIN map
                        THEN Append(before, InlineCitation(map[marker]))
                        ELSE before,
                        Text(Slice(s, index, index + m))),
                 map)

\* Lines 298-326: the while loop over the matches in the string s, looking
\* for the next match from index i on, and the remaining text after it.
RECURSIVE Scan(_, _, _, _, _)
Scan(s, i, lastIndex, parts, map) ==
  IF i > Len(s)
  THEN IF lastIndex < Len(s)
       THEN Append(parts, Text(Slice(s, lastIndex, Len(s)))) ELSE parts
  ELSE LET m == MatchAt(s, i) IN
       IF m = 0 THEN Scan(s, i + 1, lastIndex, parts, map)
       ELSE LET index == i - 1
                before == IF index > lastIndex
                          THEN Append(parts, Text(Slice(s, lastIndex, index)))
                          ELSE parts
                marker == Slice(s, index + Len(MarkerPrefix), index + m - 1)
            IN Scan(s, i + m, index + m,
                    IF marker \in DOMAIN map
                    THEN Append(before, InlineCitation(map[marker]))
                    ELSE Append(before, Text(Slice(s, index, index + m))),
                    map)

\* Lines 292-329: a string node.
ProcessString(node, map) ==
  LET parts == Scan(node.value, 1, 0, <<>>, map)
  IN IF Len(parts) > 1 THEN Fragment(parts) ELSE node

\* Lines 291-351: processNodeForCitations.  An element with children (a
\* fragment is one) is cloned with its children processed, whatever its tag.
RECURSIVE processNodeForCitations(_, _)
processNodeForCitations(node, map) ==
  IF node.type = "text" THEN ProcessString(node, map)
  ELSE IF node.type \in {"element", "fragment"}
       THEN [node EXCEPT !.children =
               [i \in 1..Len(node.children) |->
                  processNodeForCitations(node.children[i], map)]]
       ELSE node

\* Lines 355-446: the tags whose component maps processNodeForCitations over
\* its children; code and pre (lines 447-454) render theirs as they are.
ProcessingTags ==
  {"p", "h1", "h2", "h3", "h4", "h5", "h6", "blockquote", "li", "td", "th",
   "strong", "em"}

\* What the outermost components with a handler hand to React: their
\* children after one pass of processNodeForCitations.
RECURSIVE FirstPass(_, _)
FirstPass(node, map) ==
  IF node.type = "element" /\ node.tag \in ProcessingTags
  THEN [node EXCEPT !.children =
          [i \in 1..Len(node.children) |->
             processNodeForCitations(node.children[i], map)]]
  ELSE IF node.type \in {"element", "fragment"}
       THEN [node EXCEPT !.children =
               [i \in 1..Len(node.children) |->
                  FirstPass(node.children[i], map)]]
       ELSE node

\* React renders the tree from the root down, each element through the
\* component of its tag, so a handler nested in another one processes what
\* the outer one has processed already.
RECURSIVE RenderNode(_, _)
RenderNode(node, map) ==
  IF node.type = "element" /\ node.tag \in ProcessingTags
  THEN [node EXCEPT !.children =
          [i \in 1..Len(node.children) |->
             RenderNode(processNodeForCitations(node.children[i], map), map)]]
  ELSE IF node.type \in {"element", "fragment"}
       THEN [node EXCEPT !.children =
               [i \in 1..Len(node.children) |->
                  RenderNode(node.children[i], map)]]
       ELSE node

\* Lines 266-477: one render of the message with content c and citations cs.
Render(c, cs) ==
  LET text == ContentWithMarkers(c, cs)
      map == CitationMap(c, cs)
  IN [validCitations |-> IF cs = <<>> THEN <<>> ELSE InsertValidCitations(c, cs),
      citationMap |-> map,
      contentWithMarkers |-> text,
      tree |-> Parse(text),
      resolved |-> FirstPass(Parse(text), map),
      rendered |-> RenderNode(Parse(text), map)]

\* What a content chunk can hold: plain text, a code span, the > of a
\* blockquote, and the text of a marker that no citation of the message
\* stands behind.
StaleIndex == 9
Pieces == {<<"a">>, <<Tick, "b", Tick>>, <<">">>, Marker(StaleIndex)}
\* The positions a citation can carry.
Positions == (0 - 1)..MaxPosition

\* ------------------------------------------------------------------ actions
\* The items of the bridge specification's upstream sequences.
NullItem == Null
CoreItems ==
  {ObjItem(Chunk("hi", U)), StrItem(CitationEv), ObjItem(MessageEnd),
   ObjItem(Ping), Garbage, NullItem, NullStr}

\* The items of the leaf specification: every shape the parser and the
\* transformer tell apart.
ContentValues == {U, "", "hi"}
TopContentValues == {U, "", "top"}
LeafEvents ==
  {MessageStart, [MessageStart EXCEPT !.id = U], CitationEv, MessageEnd,
   [MessageEnd EXCEPT !.usage = U], Ping}
    \cup {Chunk(d, c) : d \in ContentValues, c \in TopContentValues}
LeafItems ==
  {ObjItem(e) : e \in LeafEvents} \cup {StrItem(e) : e \in LeafEvents}
    \cup {Garbage, EmptyStr, NullItem, NullStr,
          [k |-> "string", prefix |-> FALSE, json |-> ObjItem(Ping)]}

SeqsUpTo(S, n) == UNION {[1..k -> S] : k \in 0..n}

\* The message block shows the render of content c and citations cs.
Shown(c, cs) ==
  \E r \in {Render(c, cs)} :
  /\ validCitations = r.validCitations
  /\ citationMap = r.citationMap
  /\ contentWithMarkers = r.contentWithMarkers
  /\ tree = r.tree
  /\ resolved = r.resolved
  /\ rendered = r.rendered

Start(ups) ==
  /\ upstream \in ups
  /\ pos = 0
  /\ pc = "chatStream"
  /\ streamEnded = FALSE
  /\ sink = "OPEN"
  /\ frames = <<>>
  /\ transitions = 0
  /\ disconnected = FALSE
  /\ escaped = FALSE
  /\ error = NoError
  /\ errorMessage = Undefined
  /\ last = Step("init", NoData, NoData, "none", "none", "continue")
  /\ content = <<>>
  /\ citations = <<>>
  /\ chunks = <<>>
  /\ Shown(<<>>, <<>>)
  /\ parsed = Undefined

Init == Start(SeqsUpTo(CoreItems, MaxLen))

Closings(s) == IF sink = "OPEN" /\ s = "CLOSED" THEN 1 ELSE 0

\* Lines 134-202: the outer catch catches e when the sink is s and the
\* frames are fs.
Caught(e, op, s, fs, data, out) ==
  LET r == ErrorPath(e, s, fs) IN
  /\ error' = e
  /\ errorMessage' = r.message
  /\ sink' = r.sink
  /\ frames' = r.frames
  /\ transitions' = transitions + Closings(r.sink)
  /\ escaped' = r.escaped
  /\ pc' = "done"
  /\ last' = Step(op, data, out, r.write, r.close,
                  IF r.escaped THEN "escaped" ELSE "errorPath")

\* Line 33: assistant.chatStream() returns the iterator.
CallReturns ==
  /\ pc = "chatStream"
  /\ pc' = "forAwait"
  /\ last' = Step("call", NoData, NoData, "none", "none", "continue")
  /\ UNCHANGED <<upstream, pos, streamEnded, sink, frames, transitions,
                 disconnected, escaped, error, errorMessage>>
  /\ UNCHANGED <<message, parsed>>

\* Line 33: assistant.chatStream() fails.
CallRaises(E) ==
  /\ pc = "chatStream"
  /\ \E e \in E : Caught(e, "raise", sink, frames, NoData, NoData)
  /\ UNCHANGED <<upstream, pos, streamEnded, disconnected>>
  /\ UNCHANGED <<message, parsed>>

\* Line 40: the iterator throws instead of yielding its next item.
UpstreamRaises(E) ==
  /\ pc = "forAwait"
  /\ \E e \in E : Caught(e, "raise", sink, frames, NoData, NoData)
  /\ UNCHANGED <<upstream, pos, streamEnded, disconnected>>
  /\ UNCHANGED <<message, parsed>>

\* Lines 40-121: the iterator yields its next item and the loop body runs.
ProcessChunk ==
  /\ pc = "forAwait"
  /\ pos < Len(upstream)
  /\ LET r == ChunkBody(upstream[pos + 1], streamEnded, sink, frames)
         q == PostLoop(r.ended, r.sink)
     IN
     /\ pos' = pos + 1
     /\ streamEnded' = r.ended
     /\ UNCHANGED <<upstream, disconnected>>
     /\ UNCHANGED <<message, parsed>>
     /\ CASE r.flow \in {"continue", "skip", "logged"} ->
               /\ pc' = "forAwait"
               /\ sink' = r.sink
               /\ frames' = r.frames
               /\ last' = Step("chunk", r.data, r.out, r.write, r.close, r.flow)
               /\ UNCHANGED <<transitions, escaped, error, errorMessage>>
          [] r.flow = "return" ->
               /\ pc' = "done"
               /\ sink' = r.sink
               /\ frames' = r.frames
               /\ transitions' = transitions + Closings(r.sink)
               /\ last' = Step("chunk", r.data, r.out, r.write, r.close, r.flow)
               /\ UNCHANGED <<escaped, error, errorMessage>>
          [] r.flow = "break" /\ q.flow = "done" ->
               /\ pc' = "done"
               /\ sink' = q.sink
               /\ frames' = r.frames
               /\ transitions' = transitions + Closings(q.sink)
               /\ last' = Step("chunk", r.data, r.out, r.write, q.close, r.flow)
               /\ UNCHANGED <<escaped, error, errorMessage>>
          [] r.flow = "break" /\ q.flow = "throw" ->
               Caught(InvalidStateError, "chunk", q.sink, r.frames, r.data, r.out)
          [] r.flow = "throw" ->
               Caught(r.thrown, "chunk", r.sink, r.frames, r.data, r.out)

\* Lines 121-133: the iterator is exhausted.
UpstreamExhausted ==
  /\ pc = "forAwait"
  /\ pos = Len(upstream)
  /\ UNCHANGED <<message, parsed>>
  /\ LET q == PostLoop(streamEnded, sink) IN
     IF q.flow = "throw"
     THEN /\ Caught(InvalidStateError, "exhausted", q.sink, frames, NoData, NoData)
          /\ UNCHANGED <<upstream, pos, streamEnded, disconnected>>
     ELSE /\ pc' = "done"
          /\ sink' = q.sink
          /\ transitions' = transitions + Closings(q.sink)
          /\ last' = Step("exhausted", NoData, NoData, "none", q.close, "done")
          /\ UNCHANGED <<upstream, pos, streamEnded, frames, disconnected,
                         escaped, error, errorMessage>>

\* The consumer cancels the response stream while start() is suspended.
ConsumerDisconnect ==
  /\ pc \in {"chatStream", "forAwait"}
  /\ sink = "OPEN"
  /\ sink' = "CLOSED"
  /\ disconnected' = TRUE
  /\ transitions' = transitions + 1
  /\ last' = Step("disconnect", NoData, NoData, "none", "none", "continue")
  /\ UNCHANGED <<upstream, pos, pc, streamEnded, frames, escaped, error,
                 errorMessage>>
  /\ UNCHANGED <<message, parsed>>

BridgeStep(E) ==
  \/ CallReturns
  \/ CallRaises(E)
  \/ ProcessChunk
  \/ UpstreamExhausted
  \/ UpstreamRaises(E)

Next ==
  \/ CallReturns
  \/ CallRaises(SampleErrors)
  \/ ProcessChunk
  \/ UpstreamExhausted
  \/ UpstreamRaises(SampleErrors)
  \/ ConsumerDisconnect

Spec == Init /\ [][Next]_vars

\* The event loop resumes start() whenever the iterator settles, and a finite
\* upstream sequence settles every await.
FairSpec == Spec /\ WF_vars(BridgeStep(SampleErrors))

\* The leaf specification: at most one upstream item of every shape, every
\* error value.
LeafInit == Start(SeqsUpTo(LeafItems, 1))
LeafNext ==
  \/ CallReturns
  \/ CallRaises(ErrorValues)
  \/ ProcessChunk
  \/ UpstreamExhausted
  \/ UpstreamRaises(SampleErrors)
  \/ ConsumerDisconnect
LeafSpec == LeafInit /\ [][LeafNext]_vars

\* The message block renders the message again with what has arrived.
Rerender(c, cs) ==
  \E r \in {Render(c, cs)} :
  /\ validCitations' = r.validCitations
  /\ citationMap' = r.citationMap
  /\ contentWithMarkers' = r.contentWithMarkers
  /\ tree' = r.tree
  /\ resolved' = r.resolved
  /\ rendered' = r.rendered

\* A content chunk arrives: the message is rendered with the longer content.
AppendContent ==
  /\ Len(chunks) < MaxPieces
  /\ \E piece \in Pieces :
       /\ content' = content \o piece
       /\ chunks' = Append(chunks, Len(piece))
       /\ Rerender(content \o piece, citations)
  /\ UNCHANGED citations
  /\ UNCHANGED <<bridge, parsed>>

\* A citation arrives: the message is rendered with one more citation.
AppendCitation ==
  /\ Len(citations) < MaxCites
  /\ \E p \in Positions :
       LET cs == Append(citations, Citation(p, Len(citations) + 1)) IN
       /\ citations' = cs
       /\ Rerender(content, cs)
  /\ UNCHANGED <<content, chunks>>
  /\ UNCHANGED <<bridge, parsed>>

\* The message block specification: a message that starts empty and grows.
RenderInit == Start({<<>>})
RenderNext ==
  \/ AppendContent
  \/ AppendCitation
RenderSpec == RenderInit /\ [][RenderNext]_vars

\* The outer catch once more, one pass of its while loop at a time.
\* Lines 134-143 and 176-178: the catch receives e and parses its message;
\* a message that is no JSON is the errorMessage, a missing one leaves the
\* default.
CatchError(E) ==
  /\ pc = "chatStream"
  /\ \E e \in E :
       LET raw == OptGet(e, "message")
           p == IF IsString(raw) THEN JSONParse(raw)
                ELSE [ok |-> TRUE, value |-> raw]
       IN /\ error' = e
          /\ IF ~Truthy(raw)
             THEN /\ errorMessage' = DefaultMessage
                  /\ parsed' = Undefined
                  /\ pc' = "errorFrame"
             ELSE IF ~p.ok
             THEN /\ errorMessage' = raw
                  /\ parsed' = Undefined
                  /\ pc' = "errorFrame"
             ELSE /\ errorMessage' = DefaultMessage
                  /\ parsed' = p.value
                  /\ pc' = "unwrap"
  /\ last' = Step("caught", NoData, NoData, "none", "none", "continue")
  /\ UNCHANGED <<upstream, pos, streamEnded, sink, frames, transitions,
                 disconnected, escaped, message>>

\* Lines 145-175: the loop tests parsed and runs its body once.
UnwrapStep ==
  /\ pc = "unwrap"
  /\ LET raw == OptGet(error, "message")
         r == LoopBody(parsed, raw)
     IN CASE r.next = "continue" ->
               /\ parsed' = r.parsed
               /\ UNCHANGED <<pc, errorMessage>>
          [] r.next = "break" ->
               /\ errorMessage' = AfterLoop(r.message, raw)
               /\ pc' = "errorFrame"
               /\ UNCHANGED parsed
          [] r.next = "exit" ->
               /\ errorMessage' = AfterLoop(errorMessage, raw)
               /\ pc' = "errorFrame"
               /\ UNCHANGED parsed
  /\ UNCHANGED <<upstream, pos, streamEnded, sink, frames, transitions,
                 disconnected, escaped, error, last, message>>

\* Lines 181-201: the error frame is written and the sink closed.
SendErrorFrame ==
  /\ pc = "errorFrame"
  /\ LET r == ErrorTail(errorMessage, sink, frames) IN
     /\ sink' = r.sink
     /\ frames' = r.frames
     /\ transitions' = transitions + Closings(r.sink)
     /\ escaped' = r.escaped
     /\ last' = Step("errorFrame", NoData, NoData, r.write, r.close,
                     IF r.escaped THEN "escaped" ELSE "errorPath")
  /\ pc' = "done"
  /\ UNCHANGED <<upstream, pos, streamEnded, disconnected, error,
                 errorMessage, parsed, message>>

\* The unwrap specification: the call fails with any error value.  The catch
\* block is synchronous code, so a pass that can run does run.
UnwrapInit == Start({<<>>})
UnwrapNext ==
  \/ CatchError(ErrorValues)
  \/ UnwrapStep
  \/ SendErrorFrame
  \/ ConsumerDisconnect
UnwrapSpec ==
  /\ UnwrapInit
  /\ [][UnwrapNext]_vars
  /\ WF_vars(UnwrapStep)
  /\ WF_vars(SendErrorFrame)

\* ------------------------------------------------------------------- claims
IsEvent(i) ==
  \/ i.k = "object"
  \/ i.k = "string" /\ "json" \in DOMAIN i /\ i.json.k = "object"
EventOf(i) == IF i.k = "object" THEN i.ev ELSE i.json.ev
IsEnd(i) == IsEvent(i) /\ EventOf(i).type = "message_end"
EndCount(ups) == Cardinality({i \in 1..Len(ups) : IsEnd(ups[i])})
IsTerminal(f) == f.type \in {"message_end", "error"}
TerminalCount(fs) == Cardinality({i \in 1..Len(fs) : IsTerminal(fs[i])})

C2_Original ==
  (pc = "done" /\ last.op = "raise")
    => /\ Len(frames) > 0
       /\ frames[Len(frames)].type = "error"
       /\ transitions = 1
       /\ ~escaped

\* C2, amended: when the upstream raises after N frames were forwarded, the
\* bridge attempts one error frame, the sink is closed exactly once and no
\* exception leaves start(); the error frame is written after the N frames
\* when the consumer did not cancel the stream, and is not written when the
\* consumer did.
C2_ErrorFrame ==
  (pc = "done" /\ last.op = "raise")
    => /\ ~escaped
       /\ transitions = 1
       /\ sink = "CLOSED"
       /\ last.write # "none"
       /\ ~disconnected =>
            /\ Len(frames) > 0
            /\ frames[Len(frames)] = ErrorFrame(errorMessage)
            /\ TerminalCount(frames) = 1
            /\ last.write = "ok" /\ last.close = "ok"
       /\ disconnected =>
            /\ TerminalCount(frames) = 0
            /\ last.write = InvalidState /\ last.close = InvalidState

C2_Witness ==
  /\ pc = "done"
  /\ last.op = "raise"
  /\ ~disconnected
  /\ Len(frames) >= 3
  /\ frames[Len(frames)].type = "error"

\* C3 as stated: when the write of a frame fails on a closed sink before any
\* message_end was reached, the failure reaches the error path: the bridge
\* stops forwarding and ends after one attempt at an error frame.
C3_Reraised ==
  (last.op = "chunk" /\ last.write = InvalidState /\ ~streamEnded)
    => (pc = "done" /\ last.flow = "errorPath" /\ error # NoError)

\* C4: once message_end was transformed or the error path was entered, a
\* write to or a close of a closed sink raises nothing, writes no frame and
\* leaves the sink CLOSED.
C4_ClosedSinkNoOp ==
  [][((last'.write = InvalidState \/ last'.close = InvalidState)
        /\ (streamEnded' \/ error' # NoError))
       => /\ frames' = frames
          /\ sink' = "CLOSED"
          /\ ~escaped'
          /\ pc' = "done"
          /\ last'.flow \in {"break", "errorPath"}]_vars

C4_Witness ==
  /\ last.op = "chunk"
  /\ last.write = InvalidState
  /\ streamEnded
  /\ last.flow = "break"
  /\ Len(frames) >= 1

C6_DisconnectAbsorbed ==
  /\ [](~escaped)
  /\ [][disconnected => (frames' = frames /\ sink' = "CLOSED")]_vars
  /\ (disconnected ~> pc = "done")

C6_Witness ==
  /\ disconnected
  /\ pc = "done"
  /\ pos >= 2
  /\ last.op = "exhausted"
  /\ last.close = InvalidState

\* C7: when the upstream is exhausted without a message_end, the bridge
\* closes the sink and returns, and every run eventually has the sink CLOSED.
C7_ExhaustionCloses ==
  /\ [](last.op = "exhausted" => (sink = "CLOSED" /\ pc = "done"))
  /\ [](pc = "done" => sink = "CLOSED")
  /\ <>(sink = "CLOSED")

C7_Witness ==
  /\ last.op = "exhausted"
  /\ last.close = "ok"
  /\ ~streamEnded
  /\ Len(frames) >= 1

\* The events among the first n items of ups, in order.
RECURSIVE EventsIn(_, _)
EventsIn(ups, n) ==
  IF n = 0 THEN <<>>
  ELSE IF IsEvent(ups[n]) THEN Append(EventsIn(ups, n - 1), EventOf(ups[n]))
  ELSE EventsIn(ups, n - 1)

\* C8: an item that is no event (text that does not parse, or an empty
\* value) is skipped: no frame is written for it, the error path is not
\* taken and the loop goes on; every event taken so far has one frame, in
\* upstream order, as long as the sink is open and the upstream did not
\* raise.
C8_MalformedSkipped ==
  /\ (last.op = "chunk" /\ ~IsEvent(upstream[pos]))
       => /\ last.write = "none"
          /\ last.flow \in {"logged", "skip"}
          /\ error = NoError
          /\ pc = "forAwait"
  /\ (~disconnected /\ error = NoError)
       => LET evs == EventsIn(upstream, pos) IN
          /\ Len(frames) = Len(evs)
          /\ \A j \in 1..Len(evs) : frames[j].type = evs[j].type

C8_Witness ==
  /\ error = NoError
  /\ ~disconnected
  /\ pos = 3
  /\ upstream[2] = Garbage
  /\ Len(frames) = 2
  /\ frames[2].type = "message_end"

\* A field holds something: it is neither missing nor the empty string.
Present(x) == x \notin {U, ""}
Listed(d) ==
  CASE d.type = "message_start" -> {"type", "id", "model", "role"}
    [] d.type = "content_chunk" -> {"type", "delta_content"}
    [] d.type = "citation" -> {"type", "citation"}
    [] d.type = "message_end" -> {"type", "finish_reason", "usage"}
    [] OTHER -> EventFields
TableRow(d, out) ==
  /\ DOMAIN out = Listed(d)
  /\ \A f \in Listed(d) \ {"delta_content"} : out[f] = d[f]
  /\ d.type = "content_chunk" =>
       out.delta_content =
         IF Present(d.delta_content) THEN d.delta_content
         ELSE IF Present(d.content) THEN d.content
         ELSE ""
  /\ d.type # "content_chunk" => out = [f \in Listed(d) |-> d[f]]

\* C9: the transformed data of every event follows the transform table:
\* message_start gives {type,id,model,role}, content_chunk gives {type,
\* delta.content} with the content of delta.content when it holds something,
\* else of the top-level content when that holds something, else "";
\* citation gives {type,citation}; message_end gives {type,finish_reason,
\* usage}; any other event is its own output; and the frame written is that
\* output, so no unlisted field of a known kind is forwarded.
C9_TransformTable ==
  (last.op = "chunk" /\ IsEvent(upstream[pos]))
    => /\ last.data = EventOf(upstream[pos])
       /\ TableRow(last.data, last.out)
       /\ last.write = "ok" =>
            /\ frames[Len(frames)] =
                 [f \in {g \in Listed(last.data) : last.out[g] # U}
                    |-> last.out[f]]
            /\ last.data.type # "ping" => "extra" \notin DOMAIN frames[Len(frames)]

C9_Witness ==
  /\ last.op = "chunk"
  /\ last.data.type = "content_chunk"
  /\ last.data.delta_content = U
  /\ last.data.content = "top"
  /\ last.data.extra = "x"
  /\ last.write = "ok"
  /\ frames[Len(frames)] = [type |-> "content_chunk", delta_content |-> "top"]

\* A value holds a message: it is truthy.
Holds(v) == Truthy(v)
IsEnvelopeText(v) ==
  /\ IsString(v)
  /\ "json" \in DOMAIN v
  /\ v.json.k = "object"
  /\ Holds(OptGet(OptGet(v.json, "error"), "message"))

\* C10 as stated: when the message of the raised error is the JSON text of an
\* object, errorMessage is the object's error.message when it holds one (the
\* message it wraps when that is itself an envelope), else its message field
\* when it holds one, else its error field when that is a string, else the
\* raw message.
C10_Priority ==
  (pc = "done" /\ last.op = "raise" /\ error.k = "object"
     /\ IsString(error.message) /\ "json" \in DOMAIN error.message
     /\ error.message.json.k = "object")
    => LET raw == error.message
           o == raw.json
           em == OptGet(o.error, "message")
       IN IF Holds(em)
          THEN IF IsEnvelopeText(em) \/ em.k = "object"
               THEN errorMessage \notin {raw, o.message}
               ELSE errorMessage = em
          ELSE IF Holds(o.message) THEN errorMessage = o.message
          ELSE IF IsString(o.error) THEN errorMessage = o.error
          ELSE errorMessage = raw

\* A string that is not JSON text and is not empty.
PlainText(v) == IsString(v) /\ "text" \in DOMAIN v /\ v # TextV("")
\* The object {error: {message: m}}.
EnvelopeOf(m) == ObjV(ObjV(Undefined, m), Undefined)

\* C11 as stated: a raw message that is not JSON comes back unchanged; the
\* JSON text of {error:{message:m}} gives m when m is plain text; and when m
\* is itself the JSON text of such an envelope around a plain text, the
\* result is that inner text.
C11_Scenarios ==
  (pc = "done" /\ last.op = "raise" /\ error.k = "object"
     /\ IsString(error.message))
    => LET raw == error.message IN
       /\ PlainText(raw) => errorMessage = raw
       /\ \A m \in InnerTexts :
            PlainText(m) =>
              /\ raw = EncV(EnvelopeOf(m)) => errorMessage = m
              /\ raw = EncV(EnvelopeOf(EncV(EnvelopeOf(m)))) => errorMessage = m

\* The error.message of an envelope, and the envelope a message wraps: the
\* value its JSON text encodes, or the message itself when it is an object.
MessageOf(o) == OptGet(OptGet(o, "error"), "message")
Wrapped(m) ==
  IF IsString(m) THEN (IF "json" \in DOMAIN m THEN m.json ELSE Undefined)
  ELSE m
WrapsEnvelope(m) == Holds(m) /\ Holds(MessageOf(Wrapped(m)))
\* How many envelopes are nested in o, and the error.message of the last.
RECURSIVE Levels(_)
Levels(o) ==
  IF WrapsEnvelope(MessageOf(o)) THEN 1 + Levels(Wrapped(MessageOf(o))) ELSE 1
RECURSIVE Innermost(_)
Innermost(o) ==
  IF WrapsEnvelope(MessageOf(o)) THEN Innermost(Wrapped(MessageOf(o)))
  ELSE MessageOf(o)
\* The raised error carries an envelope that holds an error.message.
RaisedEnvelope ==
  /\ pc = "done" /\ last.op = "raise" /\ error.k = "object"
  /\ Holds(error.message)
  /\ Holds(MessageOf(Wrapped(error.message)))

\* C12 as stated: for an error nested three or more envelopes deep the
\* unwrapper stops after two levels, and errorMessage is the error.message
\* found at the second level.
C12_TwoLevels ==
  (RaisedEnvelope /\ Levels(Wrapped(error.message)) >= 3)
    => errorMessage = MessageOf(Wrapped(MessageOf(Wrapped(error.message))))

\* C12, amended: the unwrapper has no limit of two levels.  It descends as
\* long as error.message is itself an envelope holding an error.message, and
\* errorMessage comes from the innermost envelope: its error.message, or the
\* raw message when that text is 'An error occurred'; for three or more
\* levels it is never the message of the second level.
C12_Innermost ==
  RaisedEnvelope
    => LET o == Wrapped(error.message) IN
       /\ errorMessage = IF Innermost(o) = DefaultMessage THEN error.message
                         ELSE Innermost(o)
       /\ Levels(o) >= 3 => errorMessage # MessageOf(Wrapped(MessageOf(o)))

C12_Witness ==
  /\ RaisedEnvelope
  /\ Levels(Wrapped(error.message)) = 3
  /\ errorMessage = TextV("inner")
  /\ errorMessage = Innermost(Wrapped(error.message))

\* ------------------------------------------- claims about the message block
\* What a rendered tree shows, from left to right: characters and citation
\* references.
Ch(c) == [ch |-> c]
RefItem(n, c) == [number |-> n, citation |-> c]
RECURSIVE Flatten(_)
RECURSIVE FlattenAll(_, _)
Flatten(n) ==
  IF n.type = "text" THEN [i \in 1..Len(n.value) |-> Ch(n.value[i])]
  ELSE IF n.type = "InlineCitation"
       THEN <<RefItem(n.citationNumber, n.citation)>>
       ELSE FlattenAll(n.children, 1)
FlattenAll(kids, i) ==
  IF i > Len(kids) THEN <<>> ELSE Flatten(kids[i]) \o FlattenAll(kids, i + 1)
IsRef(x) == "number" \in DOMAIN x

\* The citations of the message whose position lies within its content.
Survivors ==
  {citations[i] : i \in {j \in 1..Len(citations) :
                           /\ citations[j].position >= 0
                           /\ citations[j].position <= Len(content)}}
\* seq lists the survivors by ascending position, those of equal position in
\* the order they arrived (ref is the arrival number).
IsIndex(seq) ==
  /\ Len(seq) = Cardinality(Survivors)
  /\ {seq[i] : i \in 1..Len(seq)} = Survivors
  /\ \A i, j \in 1..Len(seq) :
       i < j => \/ seq[i].position < seq[j].position
                \/ /\ seq[i].position = seq[j].position
                   /\ seq[i].ref < seq[j].ref

\* C13: the index computed in insertCitationMarkers and the one held by the
\* citationMap are both exactly the citations with 0 <= position <=
\* length(content), ascending by position, equal positions in their original
\* order, numbered 0, 1, 2, ... in that order (the map's number being one
\* more).
C13_Index ==
  LET n == Cardinality(Survivors) IN
  /\ IsIndex(validCitations)
  /\ DOMAIN citationMap = {Digits(k - 1) : k \in 1..n}
  /\ IsIndex([k \in 1..n |-> citationMap[Digits(k - 1)].citation])
  /\ \A k \in 1..n : citationMap[Digits(k - 1)].number = k

C13_Witness ==
  /\ Len(content) > 0
  /\ \E i, j \in 1..Len(citations) :
       /\ citations[i].position = Len(content)
       /\ citations[j].position = Len(content) + 1
       /\ validCitations = <<citations[i]>>
       /\ DOMAIN citationMap = {Digits(0)}
       /\ citationMap[Digits(0)].citation = citations[i]

\* The text with one token per indexed citation spliced in before the
\* character at its position, tokens of one position in index order.
PlaceholderChars == <<"@0", "@1", "@2", "@3", "@4", "@5", "@6", "@7", "@8">>
Token(kind, k) ==
  IF kind = "marker" THEN Marker(k) ELSE <<PlaceholderChars[k + 1]>>
RECURSIVE TokensAt(_, _, _, _)
TokensAt(index, p, k, kind) ==
  IF k > Len(index) THEN <<>>
  ELSE (IF index[k].position = p THEN Token(kind, k - 1) ELSE <<>>)
         \o TokensAt(index, p, k + 1, kind)
RECURSIVE Weave(_, _, _, _)
Weave(c, index, p, kind) ==
  IF p > Len(c) THEN <<>>
  ELSE TokensAt(index, p, 1, kind)
         \o (IF p < Len(c) THEN <<c[p + 1]>> ELSE <<>>)
         \o Weave(c, index, p + 1, kind)
\* What the round trip should show: the content formatted with a one
\* character placeholder at each citation, each placeholder then replaced by
\* the reference of its citation.
ExpectedRendering ==
  LET items == Flatten(Parse(Weave(content, validCitations, 0, "placeholder")))
      IsHolder(x, k) == x = Ch(PlaceholderChars[k])
  IN [i \in 1..Len(items) |->
        IF \E k \in 1..Len(validCitations) : IsHolder(items[i], k)
        THEN LET k == CHOOSE k \in 1..Len(validCitations) : IsHolder(items[i], k)
             IN RefItem(k, validCitations[k])
        ELSE items[i]]

\* C14 as stated: the rendering of the annotated text shows exactly one
\* reference per surviving citation, at that citation's place in the text,
\* and around the references the formatted content with nothing added, lost
\* or reordered.
C14_RoundTrip == Flatten(rendered) = ExpectedRendering

\* C15 as stated: no citation reference is rendered inside a code or pre
\* element, wherever that element sits in the tree.
RECURSIVE NoRefInCode(_, _)
NoRefInCode(n, literal) ==
  IF n.type = "InlineCitation" THEN ~literal
  ELSE IF n.type = "text" THEN TRUE
  ELSE \A i \in 1..Len(n.children) :
         NoRefInCode(n.children[i],
                     literal \/ (n.type = "element" /\ n.tag \in {"code", "pre"}))
C15_CodeLiteral == NoRefInCode(rendered, FALSE)

\* The length of the markers 0 .. k-1 together.
RECURSIVE MarkersLen(_)
MarkersLen(k) == IF k = 0 THEN 0 ELSE Len(Marker(k - 1)) + MarkersLen(k - 1)

\* C16: whatever index k insertCitationMarkers embeds as [CITATION_k] for a
\* citation, the citationMap holds that same citation under the key
\* CITATION_k with number k + 1, and holds nothing else.
C16_IndicesAgree ==
  /\ Cardinality(DOMAIN citationMap) = Len(validCitations)
  /\ \A k \in 1..Len(validCitations) :
       LET at == validCitations[k].position + MarkersLen(k - 1) IN
       /\ at + Len(Marker(k - 1)) <= Len(contentWithMarkers)
       /\ SubSeq(contentWithMarkers, at + 1, at + Len(Marker(k - 1)))
            = Marker(k - 1)
       /\ Digits(k - 1) \in DOMAIN citationMap
       /\ citationMap[Digits(k - 1)]
            = [number |-> k, citation |-> validCitations[k]]

C16_Witness ==
  /\ Len(validCitations) = 2
  /\ validCitations[1].ref = 2
  /\ validCitations[1].position < validCitations[2].position
  /\ citationMap[Digits(1)].citation.ref = 1

\* C17: the annotated text is the content with the marker of citation k
\* immediately before the character at that citation's position, markers of
\* one position in ascending index order, and nothing else changed.
C17_Splice ==
  contentWithMarkers = Weave(content, validCitations, 0, "marker")

C17_Witness ==
  /\ Len(validCitations) = 2
  /\ 0 < validCitations[1].position
  /\ validCitations[1].position < validCitations[2].position
  /\ validCitations[2].position < Len(content)
  /\ Len(contentWithMarkers) = Len(content) + Len(Marker(0)) + Len(Marker(1))

\* The items with every reference turned back into the text of its marker.
RECURSIVE Unresolved(_)
Unresolved(items) ==
  IF items = <<>> THEN <<>>
  ELSE (IF IsRef(items[1])
        THEN [i \in 1..Len(Marker(items[1].number - 1)) |->
                Ch(Marker(items[1].number - 1)[i])]
        ELSE <<items[1]>>)
         \o Unresolved(Tail(items))
\* The indices at which text s holds a marker the map does not know.
StaleMarkers(s) ==
  {i \in 1..Len(s) :
     /\ MatchAt(s, i) > 0
     /\ SubSeq(s, i + Len(MarkerPrefix), i + MatchAt(s, i) - 2)
          \notin DOMAIN citationMap}

\* C18: a marker whose index has no indexed citation stays in the rendered
\* output as the same literal text: every reference shown is one of an
\* indexed citation, and apart from the markers those references replace the
\* rendering shows the formatted text character for character.
C18_StaleLiteral ==
  LET shown == Flatten(rendered) IN
  /\ \A i \in 1..Len(shown) :
       IsRef(shown[i]) =>
         /\ Digits(shown[i].number - 1) \in DOMAIN citationMap
         /\ citationMap[Digits(shown[i].number - 1)].citation = shown[i].citation
  /\ Unresolved(shown) = Flatten(tree)

C18_Witness ==
  /\ StaleMarkers(contentWithMarkers) # {}
  /\ \E i \in 1..Len(Flatten(rendered)) : IsRef(Flatten(rendered)[i])
  /\ StaleMarkers([i \in 1..Len(Unresolved(Flatten(rendered))) |->
                     Unresolved(Flatten(rendered))[i].ch]) # {}

\* What a leaf with text s should show: a reference for every marker of an
\* indexed citation, every other character as it is.
RECURSIVE ExpectedLeaf(_, _)
ExpectedLeaf(s, i) ==
  IF i > Len(s) THEN <<>>
  ELSE LET ks == {k \in 1..Len(validCitations) :
                    /\ Digits(k - 1) \in DOMAIN citationMap
                    /\ i + Len(Marker(k - 1)) - 1 <= Len(s)
                    /\ SubSeq(s, i, i + Len(Marker(k - 1)) - 1) = Marker(k - 1)}
       IN IF ks # {}
          THEN LET k == CHOOSE k \in ks : TRUE
               IN <<RefItem(citationMap[Digits(k - 1)].number,
                            citationMap[Digits(k - 1)].citation)>>
                    \o ExpectedLeaf(s, i + Len(Marker(k - 1)))
          ELSE <<Ch(s[i])>> \o ExpectedLeaf(s, i + 1)
RECURSIVE LeavesResolved(_, _, _)
LeavesResolved(t, r, literal) ==
  IF t.type = "text"
  THEN literal \/ Flatten(r) = ExpectedLeaf(t.value, 1)
  ELSE \A i \in 1..Len(t.children) :
         LeavesResolved(t.children[i], r.children[i],
                        literal \/ t.tag \in {"code", "pre"})

\* C19 as stated: every text leaf outside code shows a reference (number
\* k + 1, that citation) in place of every marker [CITATION_k] of an indexed
\* citation, also when the leaf is that marker alone, and its other text
\* unchanged and in order.
C19_LeafResolved == LeavesResolved(tree, rendered, FALSE)

\* C20: when the content grows and the citations stay as they are, every
\* citation keeps the index it had, in the citationMap and in the inserter.
C20_IndexStable ==
  [][(citations' = citations /\ content' # content)
       => /\ \A key \in DOMAIN citationMap :
               /\ key \in DOMAIN citationMap'
               /\ citationMap'[key] = citationMap[key]
          /\ Len(validCitations') >= Len(validCitations)
          /\ SubSeq(validCitations', 1, Len(validCitations)) = validCitations]_vars

C20_Witness ==
  /\ Len(chunks) = 2
  /\ Len(validCitations) = 2
  /\ validCitations[1].position <= chunks[1]
  /\ validCitations[2].position > chunks[1]
  /\ citationMap[Digits(0)].citation = validCitations[1]

\* The error path has run to its end: the write of the error frame and the
\* close of the sink were both attempted, the sink is closed, and a frame
\* that was written carries the errorMessage.
ErrorPathEnded ==
  /\ pc = "done"
  /\ last.op = "errorFrame"
  /\ last.write \in {"ok", InvalidState}
  /\ last.close \in {"ok", InvalidState}
  /\ sink = "CLOSED"
  /\ ~escaped
  /\ last.write = "ok" => frames[Len(frames)] = ErrorFrame(errorMessage)

\* C21: every pass of the unwrap loop that enters the loop again does so
\* with the envelope nested in the error.message of the previous one, so
\* with fewer levels of nesting; and once an error is caught the error path
\* always gets to write the error frame and close the sink.
C21_Terminates ==
  /\ [][(pc = "unwrap" /\ pc' = "unwrap")
          => /\ parsed' = Wrapped(MessageOf(parsed))
             /\ Levels(parsed') < Levels(parsed)]_vars
  /\ (pc \in {"unwrap", "errorFrame"}) ~> ErrorPathEnded

C21_Witness ==
  /\ ErrorPathEnded
  /\ error.k = "object"
  /\ Levels(Wrapped(error.message)) = 3
  /\ Levels(parsed) = 1
  /\ errorMessage = MessageOf(parsed)
  /\ last.write = "ok"

\* A reference is rendered somewhere inside an element with this tag.
RECURSIVE RefUnder(_, _, _)
RefUnder(n, tag, inside) ==
  IF n.type = "InlineCitation" THEN inside
  ELSE IF n.type = "text" THEN FALSE
  ELSE \E i \in 1..Len(n.children) :
         RefUnder(n.children[i], tag,
                  inside \/ (n.type = "element" /\ n.tag = tag))

\* C22: the Marker Resolver is idempotent on node trees: what the components
\* render, where a nested handler processes the output of an outer one again,
\* reads item for item as what one pass of the resolver made: no reference is
\* added, duplicated or removed, and unresolved markers and all other text
\* are unchanged.
C22_Idempotent == Flatten(rendered) = Flatten(resolved)

\* A paragraph in a blockquote, processed by both handlers, shows a reference
\* next to a marker that stays unresolved.
C22_Witness ==
  /\ RefUnder(rendered, "blockquote", FALSE)
  /\ StaleMarkers(contentWithMarkers) # {}
  /\ rendered # tree

====
